---- MODULE Spec2Model ----
(***************************************************************************)
(* A model of the box-breakout backtester: QuantEngine (quant_engine.py)   *)
(* and the grid optimizer (run_optimizer.py).                              *)
(*                                                                         *)
(* Floating-point values are exact rationals <<n, d>> in lowest terms with *)
(* d > 0; the IEEE not-a-number value is <<0, 0>>.  A pandas column is a   *)
(* sequence, bar i of the code being element i + 1.  A DataFrame is a      *)
(* record of columns.                                                      *)
(***************************************************************************)
EXTENDS Integers, Sequences, FiniteSets

VARIABLES data, config, df_backtest, metrics, call, raised,
          pc, results_log, best_configs

vars == <<data, config, df_backtest, metrics, call, raised,
          pc, results_log, best_configs>>

----------------------------------------------------------------------------
(* Bounds of the model.                                                    *)

\* Longest price series generate_dummy_data is asked for.
MaxBars == 3
\* Longest return series handed directly to calculate_metrics.
MaxReturns == 3
\* Bars of the series main generates (20000 in the code).
MainRows == 4

----------------------------------------------------------------------------
(* Exact rational arithmetic with NaN, standing for float64.               *)

NaN == <<0, 0>>
Zero == <<0, 1>>
One == <<1, 1>>

IsNaN(x) == x[2] = 0

AbsInt(n) == IF n < 0 THEN -n ELSE n

RECURSIVE Gcd(_, _)
Gcd(a, b) == IF b = 0 THEN a ELSE Gcd(b, a % b)

\* n/d in lowest terms with a positive denominator (d # 0).
Norm(n, d) ==
    LET g == Gcd(AbsInt(n), AbsInt(d))
        s == IF d < 0 THEN -1 ELSE 1
    IN <<s * (n \div g), s * (d \div g)>>

R(n, d) == Norm(n, d)

Lcm(a, b) == (a \div Gcd(a, b)) * b

Add(x, y) ==
    IF IsNaN(x) \/ IsNaN(y) THEN NaN
    ELSE LET l == Lcm(x[2], y[2])
         IN Norm(x[1] * (l \div x[2]) + y[1] * (l \div y[2]), l)

Neg(x) == IF IsNaN(x) THEN NaN ELSE <<-x[1], x[2]>>

Sub(x, y) == Add(x, Neg(y))

Mul(x, y) ==
    IF IsNaN(x) \/ IsNaN(y) THEN NaN
    ELSE LET g1 == Gcd(AbsInt(x[1]), y[2])
             g2 == Gcd(AbsInt(y[1]), x[2])
         IN Norm((x[1] \div g1) * (y[1] \div g2), (x[2] \div g2) * (y[2] \div g1))

\* x / y for y # 0 (no divisor of the model is zero: prices are positive and
\* no modelled return is -1).
Div(x, y) ==
    IF IsNaN(x) \/ IsNaN(y) \/ y[1] = 0 THEN NaN
    ELSE Mul(x, Norm(y[2], y[1]))

AbsRat(x) == IF IsNaN(x) THEN NaN ELSE <<AbsInt(x[1]), x[2]>>

\* Every comparison with NaN is false, except !=, which is true.
Lt(x, y) ==
    /\ ~IsNaN(x)
    /\ ~IsNaN(y)
    /\ LET l == Lcm(x[2], y[2])
       IN x[1] * (l \div x[2]) < y[1] * (l \div y[2])

Gt(x, y) == Lt(y, x)

Le(x, y) == ~IsNaN(x) /\ ~IsNaN(y) /\ ~Lt(y, x)

Ne(x, y) == IsNaN(x) \/ IsNaN(y) \/ x # y

Pow10(k) == IF k = 0 THEN 1 ELSE IF k = 1 THEN 10 ELSE IF k = 2 THEN 100
            ELSE IF k = 3 THEN 1000 ELSE 10000

\* The digits of rem/d after the point, appended to acc, k digits long:
\* <<acc, rem>> after the long division.
RECURSIVE LongDiv(_, _, _, _)
LongDiv(acc, rem, d, k) ==
    IF k = 0 THEN <<acc, rem>>
    ELSE LongDiv(acc * 10 + ((rem * 10) \div d), (rem * 10) % d, d, k - 1)

\* Python's round(x, nd): to nd decimals, ties to the even digit; NaN stays.
Round(x, nd) ==
    IF IsNaN(x) THEN NaN
    ELSE LET a == AbsInt(x[1])
             qr == LongDiv(a \div x[2], a % x[2], x[2], nd)
             up == \/ 2 * qr[2] > x[2]
                   \/ (2 * qr[2] = x[2] /\ qr[1] % 2 = 1)
             m == IF up THEN qr[1] + 1 ELSE qr[1]
         IN Norm((IF x[1] < 0 THEN -1 ELSE 1) * m, Pow10(nd))

Hundred == <<100, 1>>

----------------------------------------------------------------------------
(* Column helpers (pandas / numpy).                                        *)

RECURSIVE SeqSum(_)
SeqSum(s) == IF Len(s) = 0 THEN Zero ELSE Add(Head(s), SeqSum(Tail(s)))

\* Series.mean() of a non-empty series without NaN.
Mean(s) == Div(SeqSum(s), <<Len(s), 1>>)

\* The entries of s that differ from zero, in order: s[s != 0].  NaN != 0 is
\* true, so a NaN entry is kept.
RECURSIVE NonZeroOf(_)
NonZeroOf(s) ==
    IF Len(s) = 0 THEN <<>>
    ELSE IF Ne(Head(s), Zero) THEN <<Head(s)>> \o NonZeroOf(Tail(s))
         ELSE NonZeroOf(Tail(s))

\* s[s > 0]: NaN > 0 is false.
RECURSIVE PositiveOf(_)
PositiveOf(s) ==
    IF Len(s) = 0 THEN <<>>
    ELSE IF Gt(Head(s), Zero) THEN <<Head(s)>> \o PositiveOf(Tail(s))
         ELSE PositiveOf(Tail(s))

\* s[s <= 0]: NaN <= 0 is false.
RECURSIVE NonPositiveOf(_)
NonPositiveOf(s) ==
    IF Len(s) = 0 THEN <<>>
    ELSE IF Le(Head(s), Zero) THEN <<Head(s)>> \o NonPositiveOf(Tail(s))
         ELSE NonPositiveOf(Tail(s))

MaxRat(x, y) == IF Lt(x, y) THEN y ELSE x
MinRat(x, y) == IF Lt(y, x) THEN y ELSE x

\* Largest / smallest of col[lo..hi], lo <= hi, no NaN among them.
RECURSIVE WindowMax(_, _, _)
WindowMax(col, lo, hi) ==
    IF lo = hi THEN col[lo] ELSE MaxRat(col[lo], WindowMax(col, lo + 1, hi))

RECURSIVE WindowMin(_, _, _)
WindowMin(col, lo, hi) ==
    IF lo = hi THEN col[lo] ELSE MinRat(col[lo], WindowMin(col, lo + 1, hi))

----------------------------------------------------------------------------
(* Values the model draws inputs from.                                     *)

\* Python's None, for self.data, and for a variable not yet assigned.
None == [none |-> TRUE]
IsNone(v) == "none" \in DOMAIN v

\* Closing prices and the wick factors of the synthetic bars.
Closes == {R(1, 1), R(2, 1), R(4, 1)}
Wicks == {R(1, 1), R(2, 1)}
\* Highs and lows to try in place of a bar's own: below, among and above the
\* prices the bars hold (1/2 .. 8).
Prices == {R(1, 2), R(2, 1), R(8, 1)}

StrategyConfig(w, tp, sl, fee) ==
    [lookback_window |-> w, profit_target_pct |-> tp,
     stop_loss_pct |-> sl, fee_per_trade |-> fee]

\* fee_per_trade's default, 0.0002 in the code, on the scale of the model's
\* prices (a sixteenth; every grid value stays a multiple of it).
DefaultFee == R(1, 16)

\* Configurations that meet the documented preconditions: both windows with
\* each of three risk settings (the last has a profit target equal to the fee).
RiskSettings ==
    {<<R(1, 2), R(1, 4), Zero>>, <<R(1, 2), R(1, 2), DefaultFee>>,
     <<DefaultFee, R(1, 4), DefaultFee>>}

ValidConfigs ==
    {StrategyConfig(w, rs[1], rs[2], rs[3]) : w \in {1, 2}, rs \in RiskSettings}

\* Configurations that break exactly one of them.
InvalidConfigs ==
    {StrategyConfig(0, R(1, 2), R(1, 4), Zero),
     StrategyConfig(-1, R(1, 2), R(1, 4), Zero),
     StrategyConfig(1, R(-1, 2), R(1, 4), Zero),
     StrategyConfig(1, R(1, 2), R(-1, 4), Zero),
     StrategyConfig(1, R(1, 2), R(1, 4), R(-1, 16))}

Configs == ValidConfigs \cup InvalidConfigs

ConfigIsValid(c) ==
    /\ c.lookback_window >= 1
    /\ ~Lt(c.stop_loss_pct, Zero)
    /\ ~Lt(c.profit_target_pct, Zero)
    /\ ~Lt(c.fee_per_trade, Zero)

----------------------------------------------------------------------------
(* QuantEngine.generate_dummy_data                                         *)

EmptyFrame == [open |-> <<>>, high |-> <<>>, low |-> <<>>, close |-> <<>>]

\* The frame d with one more bar: open is the previous close (the bar's own
\* close on the first bar), high is max(open, close) times a wick factor >= 1
\* and low is min(open, close) divided by it.
NextBars(d) ==
    {[open |-> Append(d.open, b[1]), high |-> Append(d.high, Mul(MaxRat(b[1], b[2]), b[3])),
      low |-> Append(d.low, Div(MinRat(b[1], b[2]), b[3])), close |-> Append(d.close, b[2])] :
        b \in {<<IF Len(d.close) = 0 THEN c ELSE d.close[Len(d.close)], c, w>> :
                  c \in Closes, w \in Wicks}}

\* The frames generate_dummy_data(num_rows) can store in self.data.
RECURSIVE DummyData(_)
DummyData(num_rows) ==
    IF num_rows = 0 THEN {EmptyFrame}
    ELSE UNION {NextBars(d) : d \in DummyData(num_rows - 1)}

----------------------------------------------------------------------------
(* QuantEngine.run_strategy                                                *)

\* Series.rolling(window).max(): NaN until the window is full (min_periods is
\* the window), and NaN throughout for an empty window (window = 0).
RollingMax(col, window) ==
    [i \in 1..Len(col) |->
        IF window = 0 \/ i < window THEN NaN ELSE WindowMax(col, i - window + 1, i)]

RollingMin(col, window) ==
    [i \in 1..Len(col) |->
        IF window = 0 \/ i < window THEN NaN ELSE WindowMin(col, i - window + 1, i)]

\* Series.shift(1): each value moves one bar later, the first becomes NaN.
Shift(col) == [i \in 1..Len(col) |-> IF i = 1 THEN NaN ELSE col[i - 1]]

\* (The box without the shift, so that it takes in the current bar.)
BoxHighWithCurrentBar(df, c) == RollingMax(df.high, c.lookback_window)

\* df['high'].rolling(window).max().shift(1), and the same of the lows.
BoxHigh(df, c) == Shift(RollingMax(df.high, c.lookback_window))
BoxLow(df, c) == Shift(RollingMin(df.low, c.lookback_window))

\* The two np.where statements: long where close > box_high, then short
\* wherever close < box_low, overwriting.
Signal(close, box_high, box_low) ==
    [i \in 1..Len(close) |->
        IF Lt(close[i], box_low[i]) THEN -1
        ELSE IF Gt(close[i], box_high[i]) THEN 1 ELSE 0]

\* An integer column as floats.
AsFloat(col) == [i \in 1..Len(col) |-> <<col[i], 1>>]

\* Series.pct_change(): close[i] / close[i-1] - 1, NaN on the first bar.
PctChange(close) ==
    [i \in 1..Len(close) |->
        IF i = 1 THEN NaN ELSE Sub(Div(close[i], close[i - 1]), One)]

\* (The lagged return with the first bar filled with 0.)
LaggedReturnZeroFilled(signal, pct_change) ==
    [i \in 1..Len(signal) |->
        IF i = 1 THEN Zero ELSE Mul(Shift(AsFloat(signal))[i], pct_change[i])]

\* df['signal'].shift(1) * df['pct_change']: NaN on the first bar.
LaggedReturn(signal, pct_change) ==
    [i \in 1..Len(signal) |-> Mul(Shift(AsFloat(signal))[i], pct_change[i])]

\* np.where(r < -stop_loss_pct, -stop_loss_pct, r)
StopLossClamp(col, c) ==
    [i \in 1..Len(col) |->
        IF Lt(col[i], Neg(c.stop_loss_pct)) THEN Neg(c.stop_loss_pct) ELSE col[i]]

\* np.where(r > profit_target_pct, profit_target_pct, r)
ProfitTargetClamp(col, c) ==
    [i \in 1..Len(col) |->
        IF Gt(col[i], c.profit_target_pct) THEN c.profit_target_pct ELSE col[i]]

\* (The fee charged on every bar.)
ApplyFeesEveryBar(col, c) ==
    [i \in 1..Len(col) |-> Sub(col[i], c.fee_per_trade)]

\* np.where(r != 0, r - fee_per_trade, r): NaN != 0 is true.
ApplyFees(col, c) ==
    [i \in 1..Len(col) |->
        IF Ne(col[i], Zero) THEN Sub(col[i], c.fee_per_trade) ELSE col[i]]

\* The box and signal columns run_strategy adds to the frame df.
SignalColumns(df, c) ==
    LET box_high == BoxHigh(df, c)
        box_low == BoxLow(df, c)
    IN [box_high |-> box_high, box_low |-> box_low,
        signal |-> Signal(df.close, box_high, box_low)]

\* strategy_return after the two clamps, before the fee.
CappedReturn(signal, pct_change, c) ==
    ProfitTargetClamp(StopLossClamp(LaggedReturn(signal, pct_change), c), c)

\* The frame run_strategy returns for the frame df it works on.
StrategyFrame(df, c) ==
    LET sc == SignalColumns(df, c)
        pct_change == PctChange(df.close)
    IN [open |-> df.open, high |-> df.high, low |-> df.low, close |-> df.close,
        box_high |-> sc.box_high, box_low |-> sc.box_low, signal |-> sc.signal,
        pct_change |-> pct_change,
        strategy_return |-> ApplyFees(CappedReturn(sc.signal, pct_change, c), c)]

\* (self.data after a run that worked on self.data itself.)
DataAliased(stored, df) == df

\* self.data after a run: the columns are added to df = self.data.copy(), so
\* the stored frame is as it was.
DataAfterCopy(stored, df) == stored

\* run_strategy(config) on an engine whose self.data is stored: what is raised,
\* what is returned (None when it raises) and self.data afterwards.  pandas'
\* rolling() raises ValueError for a negative window; nothing else is checked.
run_strategy(stored, c) ==
    IF IsNone(stored) \/ c.lookback_window < 0
    THEN [raised |-> "ValueError", df |-> None, data |-> stored]
    ELSE LET df == StrategyFrame(stored, c)
         IN [raised |-> "none", df |-> df, data |-> DataAfterCopy(stored, df)]

----------------------------------------------------------------------------
(* QuantEngine.calculate_metrics                                           *)

\* Series.cumprod() of 1 + col: a NaN entry stays NaN and is skipped by the
\* running product (skipna).
RECURSIVE CumProd(_, _)
CumProd(col, i) ==
    IF i = 0 THEN <<>>
    ELSE LET before == CumProd(col, i - 1)
             known == {j \in 1..(i - 1) : ~IsNaN(before[j])}
             last == IF known = {} THEN One
                     ELSE before[CHOOSE j \in known : \A k \in known : k <= j]
         IN Append(before,
                   IF IsNaN(col[i]) THEN NaN ELSE Mul(last, Add(One, col[i])))

\* Series.cummax(): the running maximum, NaN entries skipped and left NaN.
RECURSIVE CumMax(_, _)
CumMax(col, i) ==
    IF i = 0 THEN <<>>
    ELSE LET before == CumMax(col, i - 1)
             known == {j \in 1..(i - 1) : ~IsNaN(before[j])}
         IN Append(before,
                   IF IsNaN(col[i]) THEN NaN
                   ELSE IF known = {} THEN col[i]
                   ELSE MaxRat(before[CHOOSE j \in known : \A k \in known : k <= j],
                               col[i]))

\* (The largest entry that is not NaN.)
SeriesMax(col) ==
    LET known == {j \in 1..Len(col) : ~IsNaN(col[j])}
    IN IF known = {} THEN NaN
       ELSE col[CHOOSE j \in known : \A k \in known : ~Lt(col[j], col[k])]

\* Series.min(): the smallest entry that is not NaN; NaN when there is none.
SeriesMin(col) ==
    LET known == {j \in 1..Len(col) : ~IsNaN(col[j])}
    IN IF known = {} THEN NaN
       ELSE col[CHOOSE j \in known : \A k \in known : ~Lt(col[k], col[j])]

CumulativeReturns(returns) == CumProd(returns, Len(returns))

Drawdown(returns) ==
    LET cumulative_returns == CumulativeReturns(returns)
        peak == CumMax(cumulative_returns, Len(cumulative_returns))
    IN [i \in 1..Len(returns) |->
            Div(Sub(cumulative_returns[i], peak[i]), peak[i])]

\* (The record of the branch with no trade, with every field filled.)
NoTradesRecordWithDrawdown ==
    [win_rate |-> Zero, total_trades |-> 0, expectancy |-> Zero,
     max_drawdown_pct |-> Zero, net_profit_pct |-> Zero]

\* The record of the branch with no trade.
NoTradesRecord == [win_rate |-> Zero, total_trades |-> 0, expectancy |-> Zero]

\* round(max_drawdown * 100, 2)
MaxDrawdownPct(returns) == Round(Mul(SeriesMin(Drawdown(returns)), Hundred), 2)

calculate_metrics(df_results) ==
    LET returns == df_results.strategy_return
        trades == NonZeroOf(returns)
        total_trades == Len(trades)
        winning_trades == PositiveOf(trades)
        win_rate == R(Len(winning_trades), total_trades)
        avg_win == IF Len(winning_trades) > 0 THEN Mean(winning_trades) ELSE Zero
        losing_trades == NonPositiveOf(trades)
        avg_loss == IF Len(losing_trades) > 0 THEN AbsRat(Mean(losing_trades))
                    ELSE Zero
        expectancy == Sub(Mul(win_rate, avg_win),
                          Mul(Sub(One, win_rate), avg_loss))
        cumulative_returns == CumulativeReturns(returns)
    IN IF Len(trades) = 0 THEN NoTradesRecord
       ELSE [total_trades |-> total_trades,
             win_rate |-> Round(Mul(win_rate, Hundred), 2),
             max_drawdown_pct |-> MaxDrawdownPct(returns),
             expectancy |-> Round(Mul(expectancy, Hundred), 4),
             net_profit_pct |->
                 Round(Mul(Sub(cumulative_returns[Len(returns)], One), Hundred), 2)]

----------------------------------------------------------------------------
(* The engine driven call by call.                                         *)
(*   data         QuantEngine.data                                         *)
(*   config       the StrategyConfig of the last run_strategy call, None   *)
(*                when no run_strategy call followed the loading           *)
(*   df_backtest  the frame the last run_strategy returned, None if it      *)
(*                raised                                                   *)
(*   metrics      calculate_metrics of df_backtest, None until computed    *)
(*   call         the method called last                                   *)
(*   raised       the exception the last call raised, "none" if it returned*)

\* Every frame generate_dummy_data stores for 0..MaxBars rows.
AllDummyData == UNION {DummyData(n) : n \in 0..MaxBars}

Init ==
    /\ data = None
    /\ config = None
    /\ df_backtest = None
    /\ metrics = None
    /\ call = "init"
    /\ raised = "none"
    /\ pc = "idle"
    /\ results_log = <<>>
    /\ best_configs = <<>>

\* engine.generate_dummy_data(num_rows), once per engine.
GenerateDummyData ==
    /\ pc = "idle"
    /\ IsNone(data)
    /\ data' \in AllDummyData
    /\ config' = None
    /\ call' = "generate_dummy_data"
    /\ raised' = "none"
    /\ UNCHANGED <<df_backtest, metrics, pc, results_log, best_configs>>

\* df_backtest = engine.run_strategy(config)
RunStrategy ==
    /\ pc = "idle"
    /\ \E c \in Configs :
        LET r == run_strategy(data, c)
        IN /\ config' = c
           /\ raised' = r.raised
           /\ data' = r.data
           /\ df_backtest' = r.df
           /\ metrics' = None
    /\ call' = "run_strategy"
    /\ UNCHANGED <<pc, results_log, best_configs>>

\* metrics = engine.calculate_metrics(df_backtest)
CalculateMetrics ==
    /\ pc = "idle"
    /\ ~IsNone(df_backtest)
    /\ metrics' = calculate_metrics(df_backtest)
    /\ call' = "calculate_metrics"
    /\ raised' = "none"
    /\ UNCHANGED <<data, config, df_backtest, pc, results_log, best_configs>>

Next == GenerateDummyData \/ RunStrategy \/ CalculateMetrics

Spec == Init /\ [][Next]_vars

----------------------------------------------------------------------------
(* Properties of run_strategy and calculate_metrics under Spec.            *)

\* The last call was a run_strategy that returned df_backtest for config.
Ran == call = "run_strategy" /\ raised = "none"

NBars == Len(df_backtest.close)

\* C1: in the frame run_strategy returns, strategy_return of bar 0 is exactly
\* 0, and for every later bar it is the lagged return
\* signal[i-1] * (close[i]/close[i-1] - 1), then capped and charged the fee.
C1_FirstBarZeroAndLaggedReturn ==
    (Ran /\ ConfigIsValid(config)) =>
        /\ NBars >= 1 => df_backtest.strategy_return[1] = Zero
        /\ \A i \in 2..NBars :
            LET lagged == Mul(<<df_backtest.signal[i - 1], 1>>,
                              Sub(Div(df_backtest.close[i], df_backtest.close[i - 1]), One))
                stopped == IF Lt(lagged, Neg(config.stop_loss_pct))
                           THEN Neg(config.stop_loss_pct) ELSE lagged
                capped == IF Gt(stopped, config.profit_target_pct)
                          THEN config.profit_target_pct ELSE stopped
            IN df_backtest.strategy_return[i] =
                   IF capped = Zero THEN Zero ELSE Sub(capped, config.fee_per_trade)

\* The return of each bar after the two clamps, from the returned frame's own
\* signal and pct_change columns.
CappedOfFrame == CappedReturn(df_backtest.signal, df_backtest.pct_change, config)

\* C2: for every bar of the returned frame, a capped return of exactly 0 stays
\* 0 (no fee), and any other capped return has fee_per_trade subtracted once
\* (a NaN capped return stays NaN).
C2_FeeOnlyOnNonZeroBars ==
    Ran =>
        \A i \in 1..NBars :
            df_backtest.strategy_return[i] =
                IF CappedOfFrame[i] = Zero THEN Zero
                ELSE Sub(CappedOfFrame[i], config.fee_per_trade)

\* A run with a non-zero fee in which one bar has a capped return of 0 and
\* another bar a capped return that is a non-zero number.
C2_Witness ==
    /\ Ran
    /\ config.fee_per_trade # Zero
    /\ \E i \in 1..NBars : CappedOfFrame[i] = Zero
    /\ \E i \in 1..NBars : ~IsNaN(CappedOfFrame[i]) /\ CappedOfFrame[i] # Zero

\* self.data with the high and low of bar i replaced.
WithHighLow(df, i, h, l) ==
    [df EXCEPT !.high = [@ EXCEPT ![i] = h], !.low = [@ EXCEPT ![i] = l]]

\* C3: no lookahead: whatever high and low bar i has, run_strategy computes the
\* same signal, box_high and box_low for bar i.
C3_NoLookahead ==
    Ran =>
        \A i \in 1..NBars : \A h \in Prices, l \in Prices :
            LET other == SignalColumns(WithHighLow(data, i, h, l), config)
            IN /\ other.signal[i] = df_backtest.signal[i]
               /\ other.box_high[i] = df_backtest.box_high[i]
               /\ other.box_low[i] = df_backtest.box_low[i]

\* A run in which some bar has a full box and breaks out of it.
C3_Witness ==
    /\ Ran
    /\ \E i \in 1..NBars :
        /\ ~IsNaN(df_backtest.box_high[i])
        /\ df_backtest.signal[i] # 0
    /\ \E i \in 1..NBars : df_backtest.signal[i] = 1

\* C8: run_strategy with a configuration that breaks a precondition, or on an
\* empty price series, raises and returns no frame.
C8_InvalidInputRaises ==
    (/\ call = "run_strategy"
     /\ \/ ~ConfigIsValid(config)
        \/ (~IsNone(data) /\ Len(data.close) = 0))
    => raised # "none"

\* C9: run_strategy and calculate_metrics leave self.data as it was, the frame
\* run_strategy returns is the one computed from the stored series and the
\* configuration alone, and with no data loaded run_strategy raises and
\* changes nothing.
C9_DataLeftUnchanged ==
    [][call' \in {"run_strategy", "calculate_metrics"} =>
        /\ data' = data
        /\ (call' = "run_strategy" /\ raised' = "none") =>
               /\ df_backtest'.close = data.close
               /\ df_backtest' = StrategyFrame(data, config')
        /\ (call' = "run_strategy" /\ IsNone(data)) =>
               /\ raised' = "ValueError"
               /\ IsNone(df_backtest')]_vars

\* Metrics were computed from the frame of a run on a loaded series of two or
\* more bars.
C9_Witness ==
    /\ call = "calculate_metrics"
    /\ ~IsNone(data)
    /\ Len(data.close) >= 2
    /\ ~IsNone(metrics)

\* C10: total_trades of the metrics of a returned frame is the number of bars
\* i >= 1 entered with a non-zero position whose strategy_return is non-zero.
C10_TotalTradesCountsPositionBars ==
    (call = "calculate_metrics" /\ ConfigIsValid(config)) =>
        metrics.total_trades =
            Cardinality({i \in 2..NBars :
                /\ df_backtest.signal[i - 1] # 0
                /\ df_backtest.strategy_return[i] # Zero})

----------------------------------------------------------------------------
(* calculate_metrics on return series of any origin.                       *)

\* A return just under a third of a hundredth of a percent.
TinyLoss == R(-1, 32768)

\* The values a return takes: NaN, zero, gains and losses, a loss small enough
\* to round away, and a loss of more than the whole stake.
ReturnValues ==
    {NaN, Zero, R(1, 4), R(-1, 4), R(1, 2), TinyLoss, R(-3, 2)}

RECURSIVE SeqsUpTo(_, _)
SeqsUpTo(S, n) ==
    IF n = 0 THEN {<<>>}
    ELSE LET shorter == SeqsUpTo(S, n - 1)
         IN shorter \cup {Append(q, x) : q \in shorter, x \in S}

\* Return series of at most MaxReturns bars, the tiny loss at most once.
ReturnSeries ==
    {q \in SeqsUpTo(ReturnValues, MaxReturns) :
        Cardinality({i \in 1..Len(q) : q[i] = TinyLoss}) <= 1}

InitMetrics ==
    /\ data = None
    /\ config = None
    /\ df_backtest \in {[strategy_return |-> q] : q \in ReturnSeries}
    /\ metrics = None
    /\ call = "init"
    /\ raised = "none"
    /\ pc = "idle"
    /\ results_log = <<>>
    /\ best_configs = <<>>

SpecMetrics == InitMetrics /\ [][CalculateMetrics]_vars

Returns == df_backtest.strategy_return

Computed == call = "calculate_metrics"

\* C4: on a return series whose every entry is 0, calculate_metrics returns
\* exactly {total_trades: 0, win_rate: 0, expectancy: 0}: no max_drawdown_pct,
\* no net_profit_pct.
C4_AllZeroGivesNoTradesRecord ==
    (Computed /\ \A i \in 1..Len(Returns) : Returns[i] = Zero) =>
        /\ DOMAIN metrics = {"total_trades", "win_rate", "expectancy"}
        /\ metrics.total_trades = 0
        /\ metrics.win_rate = Zero
        /\ metrics.expectancy = Zero

\* Metrics of a series of two or more zeros.
C4_Witness ==
    /\ Computed
    /\ Len(Returns) >= 2
    /\ \A i \in 1..Len(Returns) : Returns[i] = Zero

\* The equity curve: the running product of 1 + return.
Curve == CumulativeReturns(Returns)

Numeric == {i \in 1..Len(Returns) : ~IsNaN(Returns[i])}

\* The curve is never below an earlier value of itself.
NeverBelowPeak ==
    \A i \in Numeric : \A j \in Numeric : j <= i => ~Lt(Curve[i], Curve[j])

\* x <= 1/k for a number x, without multiplying: n/d <= 1/k iff n <= d \div k.
AtMostOneIn(x, k) == x[1] <= x[2] \div k

\* The curve is never more than 0.005 % (one part in 20000) below an earlier
\* value of itself.
NeverFarBelowPeak ==
    \A i \in Numeric : \A j \in Numeric :
        j <= i => AtMostOneIn(Div(Sub(Curve[j], Curve[i]), Curve[j]), 20000)

\* Every return is a number above -1 (a loss of less than the whole stake).
WellFormed == \A i \in 1..Len(Returns) : Gt(Returns[i], R(-1, 1))

----------------------------------------------------------------------------
(* run_optimizer.main                                                      *)
(*   pc            "start", "loop" (the for loop), "done", or "failed"     *)
(*                 when an exception ended main                            *)
(*   results_log   the rows appended so far                                *)
(*   best_configs  the sorted table; each row keeps its index label        *)

\* The parameter grid, on the scale of the model's series: the code's windows
\* 10..100 of 20000 bars and its bounds of 0.1 % .. 1 % a bar become windows of
\* 1 and 2 bars and bounds of a quarter and a half, the lists shortened from
\* 4, 3 and 3 values to 2, 2 and 1.
lookback_windows == <<1, 2>>
stop_losses == <<R(1, 4), R(1, 2)>>
take_profits == <<R(1, 2)>>

\* list(itertools.product(a, b, c)): the last list varies fastest.
Product(a, b, c) ==
    [k \in 1..(Len(a) * Len(b) * Len(c)) |->
        <<a[((k - 1) \div (Len(b) * Len(c))) + 1],
          b[(((k - 1) \div Len(c)) % Len(b)) + 1],
          c[((k - 1) % Len(c)) + 1]>>]

combinations == Product(lookback_windows, stop_losses, take_profits)

\* The frames generate_dummy_data(num_rows=20000) can store, at MainRows bars.
MainData == DummyData(MainRows)

InitMain ==
    /\ data = None
    /\ config = None
    /\ df_backtest = None
    /\ metrics = None
    /\ call = "init"
    /\ raised = "none"
    /\ pc = "start"
    /\ results_log = <<>>
    /\ best_configs = <<>>

\* engine = QuantEngine(); engine.generate_dummy_data(...); results_log = []
MainGenerate ==
    /\ pc = "start"
    /\ data' \in MainData
    /\ call' = "generate_dummy_data"
    /\ pc' = "loop"
    /\ UNCHANGED <<config, df_backtest, metrics, raised, results_log, best_configs>>

\* The row main appends for one combination: metrics[...] of a key the record
\* lacks raises KeyError.
RowKeys == {"win_rate", "total_trades", "max_drawdown_pct", "expectancy"}

Row(comb, m) ==
    [Window |-> comb[1], StopLoss |-> comb[2], TakeProfit |-> comb[3],
     WinRate |-> m.win_rate, Trades |-> m.total_trades,
     Drawdown |-> m.max_drawdown_pct, Expectancy |-> m.expectancy]

\* One pass of the for loop over combinations.
MainIteration ==
    /\ pc = "loop"
    /\ Len(results_log) < Len(combinations)
    /\ LET comb == combinations[Len(results_log) + 1]
           c == StrategyConfig(comb[1], comb[3], comb[2], DefaultFee)
           r == run_strategy(data, c)
           m == calculate_metrics(r.df)
       IN /\ config' = c
          /\ data' = r.data
          /\ IF r.raised # "none"
             THEN /\ raised' = r.raised
                  /\ call' = "run_strategy"
                  /\ pc' = "failed"
                  /\ UNCHANGED <<df_backtest, metrics, results_log>>
             ELSE /\ df_backtest' = r.df
                  /\ metrics' = m
                  /\ call' = "calculate_metrics"
                  /\ IF RowKeys \subseteq DOMAIN m
                     THEN /\ results_log' = Append(results_log, Row(comb, m))
                          /\ UNCHANGED <<raised, pc>>
                     ELSE /\ raised' = "KeyError"
                          /\ pc' = "failed"
                          /\ UNCHANGED results_log
    /\ UNCHANGED best_configs

\* The orders of the index labels in idx that put WinRate highest first.  The
\* order of rows with equal WinRate is not fixed: sort_values sorts with
\* kind='quicksort', which is not a stable sort.
RECURSIVE SortedOrders(_, _)
SortedOrders(rows, idx) ==
    IF idx = {} THEN {<<>>}
    ELSE UNION {{<<k>> \o rest : rest \in SortedOrders(rows, idx \ {k})} :
                  k \in {k \in idx : \A j \in idx : ~Lt(rows[k].WinRate, rows[j].WinRate)}}

\* results_df.sort_values(by="WinRate", ascending=False), after the loop.
MainSort ==
    /\ pc = "loop"
    /\ Len(results_log) = Len(combinations)
    /\ \E order \in SortedOrders(results_log, 1..Len(results_log)) :
        best_configs' =
            [i \in 1..Len(order) |-> [index |-> order[i], row |-> results_log[order[i]]]]
    /\ pc' = "done"
    /\ UNCHANGED <<data, config, df_backtest, metrics, call, raised, results_log>>

NextMain == MainGenerate \/ MainIteration \/ MainSort

SpecMain == InitMain /\ [][NextMain]_vars

----------------------------------------------------------------------------
(* Properties of main under SpecMain.                                      *)

\* The rows of results_log for the tuple (w, sl, tp).
RowsFor(w, sl, tp) ==
    {k \in 1..Len(results_log) :
        /\ results_log[k].Window = w
        /\ results_log[k].StopLoss = sl
        /\ results_log[k].TakeProfit = tp}

Range(q) == {q[k] : k \in 1..Len(q)}

\* C6: main never fails in the loop, and once the loop is over the table has
\* |lookback_windows| * |stop_losses| * |take_profits| rows, one for each
\* tuple of the Cartesian product.
C6_OneRowPerCombination ==
    /\ pc # "failed"
    /\ pc = "done" =>
        /\ Len(results_log) =
               Len(lookback_windows) * Len(stop_losses) * Len(take_profits)
        /\ \A w \in Range(lookback_windows), sl \in Range(stop_losses),
              tp \in Range(take_profits) :
                Cardinality(RowsFor(w, sl, tp)) = 1
        /\ Len(best_configs) = Len(results_log)
        /\ {best_configs[i].index : i \in 1..Len(best_configs)} = 1..Len(results_log)

\* The sweep is over and held both a combination with no position bar (its
\* only "trade" is bar 0) and one with a position bar.
C6_Witness ==
    /\ pc = "done"
    /\ \E k \in 1..Len(results_log) : results_log[k].Trades = 1
    /\ \E k \in 1..Len(results_log) : results_log[k].Trades > 1

\* C7: the ranked table is in non-increasing WinRate order, and rows of equal
\* WinRate are in the order in which they were enumerated.
C7_SortedAndStable ==
    pc = "done" =>
        \A i \in 1..Len(best_configs) : \A j \in 1..Len(best_configs) :
            i < j =>
                /\ ~Lt(best_configs[i].row.WinRate, best_configs[j].row.WinRate)
                /\ best_configs[i].row.WinRate = best_configs[j].row.WinRate
                       => best_configs[i].index < best_configs[j].index

====
